---------------------------- MODULE Spec2Model ----------------------------
(***************************************************************************)
(* Shearing-sheet boundary remap of src/src/prob/hgb.c: shear_ix1_ox1()    *)
(* and CompRemapFlux().                                                    *)
(*                                                                         *)
(* Real numbers are exact rationals <<num, den>> in lowest terms with      *)
(* den > 0, so that every algebraic identity of the remap is decided       *)
(* exactly.  C conversions keep their meaning: (int) truncates toward      *)
(* zero, fmod takes the sign of its first argument.                        *)
(***************************************************************************)
EXTENDS Integers, Sequences, FiniteSets, TLC

(***************************************************************************)
(* Bounds of the model                                                     *)
(***************************************************************************)
\* number of active cells of the grid in x1 (radial), x2 (orbital), x3
Nx1 == 4
Nx2 == 3
Nx3 == 2
\* the outer loop advances pG->time up to MaxTime
MaxTime == 12
\* |Omega| <= MaxOmega  (par_getd_def("problem","omega",...))
MaxOmega == 1
\* number of initial grids drawn by problem()
NumGrids == 1
\* pencils handed to CompRemapFlux alone: cell values 0..MaxLevel of the
\* monotone pencils, differences -MaxStep..MaxStep of the pencils with an
\* extremum, MonoCells cells between the halos of both
MaxLevel == 5
\* restarts of a run from a restart file
MaxRestarts == 1
\* the padding loop alone: grids of 1..MaxCells cells in x2
MaxCells == 5
MaxStep == 5
MonoCells == 1

(***************************************************************************)
(* Program constants                                                       *)
(***************************************************************************)
\* number of ghost cells on each side of the grid (defs.h)
nghost == 4

(***************************************************************************)
(* Real arithmetic                                                         *)
(***************************************************************************)
RECURSIVE GCD(_, _)
GCD(a, b) == IF b = 0 THEN a ELSE GCD(b, a % b)

Abs(n) == IF n < 0 THEN -n ELSE n

\* the rational n/d in lowest terms.  A zero denominator is what IEEE
\* arithmetic produces on a division by zero: <<1,0>> and <<-1,0>> are the
\* infinities, <<0,0>> is NaN (also the value of memory never written).
R(n, d) ==
  LET g == GCD(Abs(n), Abs(d))
      s == IF d < 0 THEN -1 ELSE 1
  IN  IF g = 0 THEN <<0, 0>> ELSE <<(s * n) \div g, (s * d) \div g>>

Zero == <<0, 1>>
One == <<1, 1>>
Int2Real(n) == <<n, 1>>

\* sums and products cancel common factors before they multiply
AddScaled(x, y, g) ==
  IF g = 0
  THEN (IF x = y THEN x ELSE <<0, 0>>)
  ELSE R(x[1] * (y[2] \div g) + y[1] * (x[2] \div g), (x[2] \div g) * y[2])
Add(x, y) == AddScaled(x, y, GCD(x[2], y[2]))
MulScaled(x, y, g1, g2) ==
  IF g1 = 0 \/ g2 = 0
  THEN <<0, 0>>
  ELSE <<(x[1] \div g1) * (y[1] \div g2), (x[2] \div g2) * (y[2] \div g1)>>
Mul(x, y) == MulScaled(x, y, GCD(Abs(x[1]), y[2]), GCD(Abs(y[1]), x[2]))
Recip(x) == IF x[1] < 0 THEN <<-x[2], -x[1]>> ELSE <<x[2], x[1]>>
Div(x, y) == Mul(x, Recip(y))
Neg(x) == <<-x[1], x[2]>>
Sub(x, y) == Add(x, Neg(y))
IsNaN(x) == x = <<0, 0>>
LtScaled(x, y, g) ==
  /\ ~IsNaN(x) /\ ~IsNaN(y)
  /\ IF g = 0 THEN x[1] < y[1]
     ELSE x[1] * (y[2] \div g) < y[1] * (x[2] \div g)
Lt(x, y) == LtScaled(x, y, GCD(x[2], y[2]))
Le(x, y) == Lt(x, y) \/ (~IsNaN(x) /\ x = y)
Gt(x, y) == Lt(y, x)

\* <math.h> fabs
fabs(x) == <<Abs(x[1]), x[2]>>

\* (int)x: conversion of a Real to int truncates toward zero
Trunc(x) == IF x[1] >= 0 THEN x[1] \div x[2] ELSE -((-x[1]) \div x[2])

\* <math.h> fmod(x,y) = x - n*y, n = x/y truncated toward zero: the result
\* has the sign of x and magnitude less than |y|
fmod(x, y) == Sub(x, Mul(Int2Real(Trunc(Div(x, y))), y))

\* defs.h macros
MIN(a, b) == IF Lt(a, b) THEN a ELSE b
SIGN(a) == IF Lt(a, Zero) THEN <<-1, 1>> ELSE One
SQR(x) == Mul(x, x)
TWO_3RDS == <<2, 3>>


(***************************************************************************)
(* CompRemapFlux(), SECOND_ORDER: piecewise linear reconstruction          *)
(***************************************************************************)
Half == <<1, 2>>
Two == <<2, 1>>
Three == <<3, 1>>

\* variant without the limiter: the centered difference
VanLeerUnlimited(dUc, dUl, dUr) == dUc

\* variant that keeps the sign test and drops the bound 2.0*lim_slope
VanLeerUnclipped(dUc, dUl, dUr) ==
  IF Gt(Mul(dUl, dUr), Zero) THEN Mul(Half, dUc) ELSE Zero

\* Step 3: the limited (van Leer) slope dUm from the centered, left and
\* right differences
VanLeer(dUc, dUl, dUr) ==
  IF Gt(Mul(dUl, dUr), Zero)
  THEN Mul(SIGN(dUc),
           MIN(Mul(Half, fabs(dUc)), Mul(Two, MIN(fabs(dUl), fabs(dUr)))))
  ELSE Zero

\* Steps 2 and 3 for cell x, component c of the pencil Up
LimitedSlope(Up, x, c) ==
  VanLeer(Sub(Up[x + 1][c], Up[x - 1][c]),
          Sub(Up[x][c], Up[x - 1][c]),
          Sub(Up[x + 1][c], Up[x][c]))

\* variant of Step 4 with eps multiplying the cell average only
IntegrateLinearMisplaced(eps, Uc, dUm) ==
  IF Gt(eps, Zero)
  THEN Add(Mul(eps, Uc), Mul(Mul(Half, Sub(One, eps)), dUm))
  ELSE Sub(Mul(eps, Uc), Mul(Mul(Half, Add(One, eps)), dUm))

\* Step 4: the linear profile of a cell with average Uc and slope dUm
\* integrated over eps
IntegrateLinear(eps, Uc, dUm) ==
  IF Gt(eps, Zero)
  THEN Mul(eps, Add(Uc, Mul(Mul(Half, Sub(One, eps)), dUm)))
  ELSE Mul(eps, Sub(Uc, Mul(Mul(Half, Add(One, eps)), dUm)))

(***************************************************************************)
(* CompRemapFlux(), THIRD_ORDER: extremum-preserving parabolae (PPME)      *)
(***************************************************************************)
\* the limited second difference: nonzero only when the differences share
\* the sign of d2, then SIGN(d2)*MIN(1.25*lim_slope,fabs(d2))
LimitCurvature(d2, sameSign, lim_slope) ==
  IF sameSign
  THEN Mul(SIGN(d2), MIN(Mul(<<5, 4>>, lim_slope), fabs(d2)))
  ELSE Zero

AllPositive(S) == \A v \in S : Gt(v, Zero)
AllNegative(S) == \A v \in S : Lt(v, Zero)

InterfaceLimited(Um1, Uc, d2Uc, d2Ul, d2Ur) ==
  Mul(Half,
      Sub(Add(Um1, Uc),
          Div(LimitCurvature(d2Uc,
                             AllPositive({d2Uc, d2Ul, d2Ur})
                               \/ AllNegative({d2Uc, d2Ul, d2Ur}),
                             MIN(fabs(d2Ul), fabs(d2Ur))),
              Three)))

InterfaceFrom(Um2, Um1, Uc, Up1, Uhalf0) ==
  InterfaceLimited(Um1, Uc,
                   Mul(Three, Add(Sub(Um1, Mul(Two, Uhalf0)), Uc)),
                   Add(Sub(Um2, Mul(Two, Um1)), Uc),
                   Add(Sub(Um1, Mul(Two, Uc)), Up1))

\* Step 2 for interface x (the left edge of cell x): the limited interface
\* state Uhalf[x][c] (CS eqns 12-15)
InterfaceState(Up, x, c) ==
  InterfaceFrom(Up[x - 2][c], Up[x - 1][c], Up[x][c], Up[x + 1][c],
                Div(Sub(Mul(<<7, 1>>, Add(Up[x - 1][c], Up[x][c])),
                        Add(Up[x - 2][c], Up[x + 1][c])), <<12, 1>>))

\* Step 4 at an extremum: the L/R values rescaled by d2Ulim/d2U
RescaleEdges(Uc, Ulv, Urv, d2U, d2Ulim) ==
  IF d2U = Zero
  THEN <<Uc, Uc>>
  ELSE <<Add(Uc, Div(Mul(Sub(Ulv, Uc), d2Ulim), d2U)),
         Add(Uc, Div(Mul(Sub(Urv, Uc), d2Ulim), d2U))>>

ExtremumEdges(Uc, Ulv, Urv, d2U, d2Uc, d2Ul, d2Ur) ==
  RescaleEdges(Uc, Ulv, Urv, d2U,
               LimitCurvature(d2U,
                              AllPositive({d2Uc, d2Ul, d2Ur, d2U})
                                \/ AllNegative({d2Uc, d2Ul, d2Ur, d2U}),
                              MIN(fabs(d2Uc), MIN(fabs(d2Ul), fabs(d2Ur)))))

\* Steps 3 and 4 for a cell with average Uc, neighbours Um2..Up2 and
\* interface states Ulv, Urv: the L/R values <<Ulv, Urv>> (CS eqn 16-19)
InterpolantFrom(Um2, Um1, Uc, Up1, Up2, Ulv, Urv) ==
  IF /\ Le(Mul(Sub(Urv, Uc), Sub(Uc, Ulv)), Zero)
     /\ Le(Mul(Sub(Um1, Uc), Sub(Uc, Up1)), Zero)
  THEN ExtremumEdges(Uc, Ulv, Urv,
         Mul(<<-2, 1>>, Mul(<<6, 1>>, Sub(Uc, Mul(Half, Add(Ulv, Urv))))),
         Add(Sub(Um1, Mul(Two, Uc)), Up1),
         Add(Sub(Um2, Mul(Two, Um1)), Uc),
         Add(Sub(Uc, Mul(Two, Up1)), Up2))
  ELSE <<Ulv, Urv>>

ParabolicInterpolant(Up, Uh, x, c) ==
  InterpolantFrom(Up[x - 2][c], Up[x - 1][c], Up[x][c], Up[x + 1][c],
                  Up[x + 2][c], Uh[x][c], Uh[x + 1][c])

\* Step 5: monotonize again (CW eqn 1.10)
MonotonizeFrom(Uc, Ulv, Urv, qa, qb, qc) ==
  IF Le(qa, Zero) THEN <<Uc, Uc>>
  ELSE IF Gt(Mul(qb, qc), Mul(qb, qb))
       THEN <<Sub(Mul(Three, Uc), Mul(Two, Urv)), Urv>>
  ELSE IF Lt(Mul(qb, qc), Neg(Mul(qb, qb)))
       THEN <<Ulv, Sub(Mul(Three, Uc), Mul(Two, Ulv))>>
  ELSE <<Ulv, Urv>>

\* variant of Step 5 that only flattens a cell holding an extremum and
\* never moves a single edge value
MonotonizeFlatOnly(Uc, LR) ==
  IF Le(Mul(Sub(LR[2], Uc), Sub(Uc, LR[1])), Zero) THEN <<Uc, Uc>> ELSE LR

Monotonize(Uc, LR) ==
  MonotonizeFrom(Uc, LR[1], LR[2],
                 Mul(Sub(LR[2], Uc), Sub(Uc, LR[1])),
                 Sub(LR[2], LR[1]),
                 Mul(<<6, 1>>, Sub(Uc, Mul(Half, Add(LR[1], LR[2])))))

\* the L/R values of cell x after Steps 3-5
EdgeValues(Up, Uh, x, c) ==
  Monotonize(Up[x][c], ParabolicInterpolant(Up, Uh, x, c))

\* variant of Step 7 that integrates over the departure interval without
\* the factor eps of its width
IntegrateParabolaUnscaled(eps, Ulv, Urv, dU, U6, qx) ==
  IF Gt(eps, Zero)
  THEN Sub(Urv, Mul(Mul(<<3, 4>>, qx), Sub(dU, Mul(Sub(One, qx), U6))))
  ELSE Add(Ulv, Mul(Mul(<<3, 4>>, qx), Add(dU, Mul(Sub(One, qx), U6))))

\* Step 7: the parabola with edge values Ulv, Urv and coefficients dU, U6
\* integrated over eps
IntegrateParabola(eps, Ulv, Urv, dU, U6, qx) ==
  IF Gt(eps, Zero)
  THEN Mul(eps, Sub(Urv, Mul(Mul(<<3, 4>>, qx),
                             Sub(dU, Mul(Sub(One, qx), U6)))))
  ELSE Mul(eps, Add(Ulv, Mul(Mul(<<3, 4>>, qx),
                             Add(dU, Mul(Sub(One, qx), U6)))))

\* Steps 6 and 7 from the L/R values LR of a cell with average Uc
ParabolaFlux(eps, Uc, LR) ==
  IntegrateParabola(eps, LR[1], LR[2],
                    Sub(LR[2], LR[1]),
                    Mul(<<6, 1>>, Sub(Uc, Mul(Half, Add(LR[1], LR[2])))),
                    IF Gt(eps, Zero) THEN Mul(TWO_3RDS, eps)
                    ELSE Neg(Mul(TWO_3RDS, eps)))

(***************************************************************************)
(* Build configuration and the conserved state (struct Gas)                *)
(***************************************************************************)
\* One build: SECOND_ORDER or THIRD_ORDER remap, ADIABATIC or isothermal,
\* MHD or hydro, NSCALARS passive scalars.
BuildConfigs ==
  [order : {2, 3}, adiabatic : BOOLEAN, mhd : BOOLEAN, nscalars : {0, 1}]

\* The builds of hgb.c that compile: with NSCALARS > 0 the inbound
\* write-back (line 408, "Flx[j].[n]") is not a C expression.
Builds == {b \in BuildConfigs : b.nscalars = 0}

\* the fields of struct Gas in declaration order; CompRemapFlux walks them
\* as the Real array pU[i][0..NVAR-1]
GasFields(b) ==
  <<"d", "M1", "M2", "M3">>
    \o (IF b.adiabatic THEN <<"E">> ELSE <<>>)
    \o (IF b.mhd THEN <<"B1c", "B2c", "B3c">> ELSE <<>>)
    \o (IF b.nscalars > 0 THEN <<"s0">> ELSE <<>>)

NVAR(b) == Len(GasFields(b))
Comps(b) == {GasFields(b)[n] : n \in 1..NVAR(b)}

ZeroGas(b) == [c \in Comps(b) |-> Zero]

(***************************************************************************)
(* Grid geometry (struct Grid)                                             *)
(***************************************************************************)
is == nghost
ie == nghost + Nx1 - 1
js == nghost
je == nghost + Nx2 - 1
ks == IF Nx3 > 1 THEN nghost ELSE 0
ke == ks + Nx3 - 1

\* index ranges of the array pG->U[k][j][i]; of the x3 ghost slices only
\* the two that touch the active slices are kept
IRange == 0..(Nx1 + 2 * nghost - 1)
JRange == 0..(Nx2 + 2 * nghost - 1)
KRange == IF Nx3 > 1 THEN (ks - 1)..(ke + 1) ELSE {0}

\* length of Flx, RemapGas[i], pU: nmax = pGrid->Nx2 + 2*nghost
nmax == Nx2 + 2 * nghost

\* cell width in x2, box size: Lx = x1max - x1min, Ly = x2max - x2min
dx2 == <<4, 1>>
Lx == <<2, 3>>
Ly == Mul(Int2Real(Nx2), dx2)
\* the time steps of the outer loop: the times in which a shear of unit rate
\* (1.5*Omega*Lx = 1) moves a quarter of a cell and one box
dt == {Div(dx2, <<4, 1>>), Ly}

\* the buffers allocated by the setup routines, in their order of
\* allocation; Uhalf exists in the third-order builds only
Buffers == <<"Flx", "RemapGas", "pU", "Uhalf">>
NumBuffers(b) == IF b.order = 3 THEN 4 ELSE 3

\* what the setup routines read: pGrid->Nx2, pGrid->dx2 and the parameters
\* x1max - x1min, x2max - x2min and problem/omega
GridConfig(w) ==
  [Nx2 |-> Nx2, dx2 |-> dx2, x1len |-> Lx, x2len |-> Ly, omega |-> w]

\* the process before its setup routine has run: the static pointers are
\* NULL, the static Lx, Ly zero, the x1 boundary hooks the defaults
Unset(entry, restarts, cfg) ==
  [entry |-> entry, restarts |-> restarts, cfg |-> cfg,
   Lx |-> Zero, Ly |-> Zero, hooks |-> <<"default", "default">>,
   nmax |-> 0, nalloc |-> 0, ptr |-> [n \in 1..Len(Buffers) |-> "NULL"]]

\* the process after problem() has returned on the grid of this model
Established(b, w) ==
  [Unset("problem", 0, GridConfig(w)) EXCEPT
     !.Lx = Lx, !.Ly = Ly, !.hooks = <<"no_op", "no_op">>, !.nmax = nmax,
     !.nalloc = NumBuffers(b),
     !.ptr = [n \in 1..Len(Buffers) |->
                IF n <= NumBuffers(b) THEN "allocated" ELSE "NULL"]]

VARIABLES
  build,      \* compile-time configuration of this run
  Omega,      \* global Omega, read by problem()
  time,       \* pG->time
  U,          \* pG->U[k][j][i]
  RemapGas,   \* static Gas **RemapGas: [0..nghost-1][0..nmax-1]
  Flx,        \* static Gas *Flx: [0..nmax-1]
  Uhalf,      \* static Real **Uhalf: [0..nmax-1][NVAR] (third order)
  dUm,        \* CompRemapFlux: dUm[NVAR] of each cell (second order)
  Ulv,        \* CompRemapFlux: Ulv[NVAR] of each cell (third order)
  Urv,        \* CompRemapFlux: Urv[NVAR] of each cell (third order)
  var_flag,   \* argument of the current / last call of shear_ix1_ox1
  deltay,     \* locals of shear_ix1_ox1
  j_offset,
  epsi,
  epso,
  face,       \* "ix1" or "ox1": the remap that is running
  k,          \* loop variable k of shear_ix1_ox1
  i,          \* loop variable i (ghost layer) of the remap loops
  setup,      \* what the setup routine of this process has read and set
  exchanged,  \* history: an exchange has completed at the current pG->time
  pc          \* position of the control flow

vars == <<build, Omega, time, U, RemapGas, Flx, Uhalf, dUm, Ulv, Urv,
          var_flag, deltay, j_offset, epsi, epso, face, k, i, setup,
          exchanged, pc>>

\* what shear_ix1_ox1 and CompRemapFlux never assign
params == <<build, Omega, time, setup>>
\* the locals of shear_ix1_ox1 set at its entry
offsets == <<var_flag, deltay, j_offset, epsi, epso>>
\* the scratch arrays of CompRemapFlux
scratch == <<Uhalf, dUm, Ulv, Urv>>

(***************************************************************************)
(* problem(): initial conditions                                           *)
(***************************************************************************)
RECURSIVE Pow3(_)
Pow3(n) == IF n = 0 THEN 1 ELSE 3 * Pow3(n - 1)

\* value at orbital position jj (0-based) of the pencil number idx: the
\* pencils are all sequences over three levels
PencilLevel(idx, jj) == (idx \div Pow3(jj)) % 3

CompIndex(b, c) == CHOOSE n \in 1..NVAR(b) : GasFields(b)[n] = c

\* the pencil carried by component c in column ii of slice kk of grid g
PencilOf(g, b, kk, ii, c) ==
  (1 + 13 * g + 5 * CompIndex(b, c) + 7 * ii + 11 * kk) % Pow3(Nx2)

\* interior cell values written by problem(): density is positive, the other
\* components take both signs
InitCell(g, b, kk, j, ii) ==
  [c \in Comps(b) |->
     LET lev == PencilLevel(PencilOf(g, b, kk, ii, c), j - js)
     IN  IF c = "d" THEN Int2Real(1 + lev)
         ELSE IF c = "E" THEN Int2Real(3 + 2 * lev)
         ELSE Int2Real(2 * lev - 1)]

\* The rows outside [js, je] of the active columns belong to the x2
\* boundary function of the grid, which runs after shear_ix1_ox1: when the
\* exchange is called they hold the periodic image of an earlier state of
\* the grid, here of the pencils of the next grid number.
OrbitalGhostCell(g, b, kk, j, ii) ==
  InitCell(g + 1, b, kk, js + ((j - js + nghost * Nx2) % Nx2), ii)

\* the grid when the exchange is called: active cells as problem() sets
\* them, x2 ghost rows as the x2 boundary function left them, the other
\* ghost cells as allocated (zero)
InitGrid(g, b) ==
  [kk \in KRange |-> [j \in JRange |-> [ii \in IRange |->
     IF kk \in ks..ke /\ ii \in is..ie
     THEN IF j \in js..je
          THEN InitCell(g, b, kk, j, ii)
          ELSE OrbitalGhostCell(g, b, kk, j, ii)
     ELSE ZeroGas(b)]]]

\* memory that is allocated or declared and not yet written
Indet == <<0, 0>>
IndetGas(b) == [c \in Comps(b) |-> Indet]
IndetPencil(b) == [j \in 0..(nmax - 1) |-> IndetGas(b)]

Init ==
  /\ build \in Builds
  /\ Omega \in {Int2Real(w) : w \in (-MaxOmega)..MaxOmega}
  /\ time = Zero
  /\ \E g \in 1..NumGrids : U = InitGrid(g, build)
  /\ RemapGas = [ii \in 0..(nghost - 1) |->
                   [j \in 0..(nmax - 1) |-> ZeroGas(build)]]
  /\ Flx = IndetPencil(build)
  /\ Uhalf = [j \in 0..(nmax - 1) |-> ZeroGas(build)]
  /\ dUm = IndetPencil(build)
  /\ Ulv = IndetPencil(build)
  /\ Urv = IndetPencil(build)
  /\ var_flag = 0
  /\ deltay = Zero
  /\ j_offset = 0
  /\ epsi = Zero
  /\ epso = Zero
  /\ face = "ix1"
  /\ k = ks
  /\ i = 0
  /\ setup = Established(build, Omega)
  /\ exchanged = FALSE
  /\ pc = "idle"

(***************************************************************************)
(* shear_ix1_ox1(pG, var_flag): entry and offsets                          *)
(***************************************************************************)
VarFlags == {0, 1}

\* the distance the computational domain has sheared in y
YShear(Om, t) == Mul(Mul(Mul(<<3, 2>>, Om), Lx), t)

\* variant without the periodic wrap
DeltaYUnwrapped(yshear) == yshear

\* deltay = fmod(yshear, Ly)
DeltaY(yshear) == fmod(yshear, Ly)

\* j_offset = (int)(deltay/pG->dx2)
JOffset(dy) == Trunc(Div(dy, dx2))

\* epsi = (fmod(deltay,pG->dx2))/pG->dx2
Epsi(dy) == Div(fmod(dy, dx2), dx2)

\* variant of the entry without the early return
CallWithoutEarlyReturn(vf) ==
  /\ pc \in {"idle", "ret"}
  /\ var_flag' = vf
  /\ deltay' = DeltaY(YShear(Omega, time))
  /\ j_offset' = JOffset(deltay')
  /\ epsi' = Epsi(deltay')
  /\ epso' = Neg(epsi')
  /\ face' = "ix1"
  /\ k' = ks
  /\ i' = 0
  /\ pc' = "gather"
  /\ UNCHANGED <<params, exchanged, U, RemapGas, Flx, scratch>>

\* entry of the function: the early return for var_flag == 1, else the
\* offsets are computed once and the ix1 remap starts with slice ks
Call(vf) ==
  /\ pc \in {"idle", "ret"}
  /\ var_flag' = vf
  /\ IF vf = 1
     THEN /\ pc' = "ret"
          /\ UNCHANGED <<deltay, j_offset, epsi, epso, face, k, i>>
     ELSE /\ deltay' = DeltaY(YShear(Omega, time))
          /\ j_offset' = JOffset(deltay')
          /\ epsi' = Epsi(deltay')
          /\ epso' = Neg(epsi')
          /\ face' = "ix1"
          /\ k' = ks
          /\ i' = 0
          /\ pc' = "gather"
  /\ UNCHANGED <<params, exchanged, U, RemapGas, Flx, scratch>>

(***************************************************************************)
(* shear_ix1_ox1: copy of the opposite side into RemapGas                  *)
(***************************************************************************)
\* source row of the ix1 gather: j - j_offset, wrapped once if below js
JRemapIx1(j, joff) ==
  IF j - joff < js THEN j - joff + Nx2 ELSE j - joff

\* source row of the ox1 gather: j + j_offset, wrapped once if above je
JRemapOx1(j, joff) ==
  IF j + joff > je THEN j + joff - Nx2 ELSE j + joff

\* the momentum of the background shear across the box: 1.5*Omega*Lx*d
Boost(Om, d) == Mul(Mul(Mul(<<3, 2>>, Om), Lx), d)

\* variant that adds the boost on both faces
BoostedM2SameSign(Om, sgn, src) == Add(src["M2"], Boost(Om, src["d"]))

\* M2 of a gathered cell: += on the ix1 face (sgn = 1), -= on the ox1 face
BoostedM2(Om, sgn, src) ==
  IF sgn > 0 THEN Add(src["M2"], Boost(Om, src["d"]))
  ELSE Sub(src["M2"], Boost(Om, src["d"]))

\* variant that corrects E by the square of the momentum difference
BoostedESquaredDifference(src, M2) ==
  Add(src["E"], Mul(Div(Half, src["d"]), SQR(Sub(M2, src["M2"]))))

\* E of a gathered cell: E += (0.5/d)*(SQR(M2 boosted) - SQR(M2 source))
BoostedE(src, M2) ==
  Add(src["E"], Mul(Div(Half, src["d"]), Sub(SQR(M2), SQR(src["M2"]))))

\* the fields of a RemapGas cell that the gather loops assign
GatheredFields(b) ==
  {"d", "M1", "M2", "M3"}
    \cup (IF b.adiabatic THEN {"E"} ELSE {})
    \cup (IF b.nscalars > 0 THEN {"s0"} ELSE {})

\* One gathered cell from the source cell src; a field that is not assigned
\* keeps the value old it has in RemapGas.
GatherCell(b, Om, sgn, src, old) ==
  [c \in Comps(b) |->
     IF c \notin GatheredFields(b) THEN old[c]
     ELSE IF c = "M2" THEN BoostedM2(Om, sgn, src)
     ELSE IF c = "E" THEN BoostedE(src, BoostedM2(Om, sgn, src))
     ELSE src[c]]

\* column of the source cells of ghost layer ii
SourceColumnIx1(ii) == ie - nghost + 1 + ii
SourceColumnOx1(ii) == is + ii

\* ix1 remap: data from the ox1 side of slice k, shifted by j_offset
GatherIx1 ==
  /\ pc = "gather" /\ face = "ix1"
  /\ RemapGas' =
       [ii \in 0..(nghost - 1) |-> [j \in 0..(nmax - 1) |->
          IF j \in js..je
          THEN GatherCell(build, Omega, 1,
                          U[k][JRemapIx1(j, j_offset)][SourceColumnIx1(ii)],
                          RemapGas[ii][j])
          ELSE RemapGas[ii][j]]]
  /\ pc' = "pad"
  /\ UNCHANGED <<params, exchanged, U, Flx, scratch, offsets, face, k, i>>

\* ox1 remap: data from the ix1 side of slice k, shifted by j_offset
GatherOx1 ==
  /\ pc = "gather" /\ face = "ox1"
  /\ RemapGas' =
       [ii \in 0..(nghost - 1) |-> [j \in 0..(nmax - 1) |->
          IF j \in js..je
          THEN GatherCell(build, Omega, -1,
                          U[k][JRemapOx1(j, j_offset)][SourceColumnOx1(ii)],
                          RemapGas[ii][j])
          ELSE RemapGas[ii][j]]]
  /\ pc' = "pad"
  /\ UNCHANGED <<params, exchanged, U, Flx, scratch, offsets, face, k, i>>

\* one pencil after the loop  for(j=1; j<=nghost; j++) { row[js-j] =
\* row[je+1-j]; row[je+j] = row[js+j-1]; }  run from j = m on
RECURSIVE PadFrom(_, _)
PadFrom(row, m) ==
  IF m > nghost THEN row
  ELSE PadFrom([[row EXCEPT ![js - m] = row[je + 1 - m]]
                  EXCEPT ![je + m] = row[js + m - 1]], m + 1)

\* y-periodicity applied to every pencil of RemapGas
ApplyPeriodicity(RG) == [ii \in DOMAIN RG |-> PadFrom(RG[ii], 1)]

Pad ==
  /\ pc = "pad"
  /\ RemapGas' = ApplyPeriodicity(RemapGas)
  /\ i' = 0
  /\ pc' = "step2"
  /\ UNCHANGED <<params, exchanged, U, Flx, scratch, offsets, face, k>>

(***************************************************************************)
(* CompRemapFlux(RemapGas[i], eps, js, je+1, Flx)                          *)
(***************************************************************************)
\* the arguments of the call: eps, il, iu
CallEps == IF face = "ix1" THEN epsi ELSE epso
il == js
iu == je + 1

\* variant whose loops run over the cells [il, iu] only
CellsWithoutEnds == il..iu

\* the cells of the loops over [il-1, iu+1]
Cells == (il - 1)..(iu + 1)

\* variant that stores the flux of cell i in Flux[i] for every eps
FluxCellUnshifted(eps, x) == x

\* the cell whose flux is stored in Flux[x]: Flux[i+1] is assigned from
\* cell i when eps > 0, Flux[i] when not
FluxCell(eps, x) == IF Gt(eps, Zero) THEN x - 1 ELSE x

\* SECOND_ORDER, Steps 2-3 of every cell
Slopes ==
  /\ pc = "step2" /\ build.order = 2
  /\ dUm' = [x \in 0..(nmax - 1) |->
               IF x \in Cells
               THEN [c \in Comps(build) |-> LimitedSlope(RemapGas[i], x, c)]
               ELSE dUm[x]]
  /\ pc' = "step4"
  /\ UNCHANGED <<params, exchanged, U, RemapGas, Flx, Uhalf, Ulv, Urv, offsets, face,
                 k, i>>

\* SECOND_ORDER, Step 4 of every cell
FluxLinear ==
  /\ pc = "step4"
  /\ Flx' = [x \in 0..(nmax - 1) |->
               IF FluxCell(CallEps, x) \in Cells
               THEN [c \in Comps(build) |->
                       IntegrateLinear(CallEps,
                                       RemapGas[i][FluxCell(CallEps, x)][c],
                                       dUm[FluxCell(CallEps, x)][c])]
               ELSE Flx[x]]
  /\ pc' = "write"
  /\ UNCHANGED <<params, exchanged, U, RemapGas, scratch, offsets, face, k, i>>

\* THIRD_ORDER, Step 2: the interface states over [il-1, iu+2]
Interfaces ==
  /\ pc = "step2" /\ build.order = 3
  /\ Uhalf' = [x \in 0..(nmax - 1) |->
                 IF x \in (il - 1)..(iu + 2)
                 THEN [c \in Comps(build) |-> InterfaceState(RemapGas[i], x, c)]
                 ELSE Uhalf[x]]
  /\ pc' = "step3"
  /\ UNCHANGED <<params, exchanged, U, RemapGas, Flx, dUm, Ulv, Urv, offsets, face,
                 k, i>>

\* THIRD_ORDER, Steps 3-5 of every cell
Edges ==
  /\ pc = "step3"
  /\ Ulv' = [x \in 0..(nmax - 1) |->
               IF x \in Cells
               THEN [c \in Comps(build) |->
                       EdgeValues(RemapGas[i], Uhalf, x, c)[1]]
               ELSE Ulv[x]]
  /\ Urv' = [x \in 0..(nmax - 1) |->
               IF x \in Cells
               THEN [c \in Comps(build) |->
                       EdgeValues(RemapGas[i], Uhalf, x, c)[2]]
               ELSE Urv[x]]
  /\ pc' = "step6"
  /\ UNCHANGED <<params, exchanged, U, RemapGas, Flx, Uhalf, dUm, offsets, face, k, i>>

\* THIRD_ORDER, Steps 6-7 of every cell
FluxParabolic ==
  /\ pc = "step6"
  /\ Flx' = [x \in 0..(nmax - 1) |->
               IF FluxCell(CallEps, x) \in Cells
               THEN [c \in Comps(build) |->
                       ParabolaFlux(CallEps,
                                    RemapGas[i][FluxCell(CallEps, x)][c],
                                    <<Ulv[FluxCell(CallEps, x)][c],
                                      Urv[FluxCell(CallEps, x)][c]>>)]
               ELSE Flx[x]]
  /\ pc' = "write"
  /\ UNCHANGED <<params, exchanged, U, RemapGas, scratch, offsets, face, k, i>>

(***************************************************************************)
(* shear_ix1_ox1: conservative remap into the ghost zones                  *)
(***************************************************************************)
\* the fields of a ghost cell that the write-back loops assign
WrittenFields(b) ==
  {"d", "M1", "M2", "M3"}
    \cup (IF b.adiabatic THEN {"E"} ELSE {})
    \cup (IF b.nscalars > 0 THEN {"s0"} ELSE {})

\* RemapGas[i][j] - (Flx[j+1] - Flx[j]) in one field
Remapped(rg, Fp, Fm) == Sub(rg, Sub(Fp, Fm))

\* variant of the write-back that adds the remapped value to the ghost cell
RemapCellAccumulated(b, inner, rg, Fp, Fm, old) ==
  [c \in Comps(b) |->
     IF c \notin WrittenFields(b) THEN old[c]
     ELSE Add(old[c], Remapped(rg[c], Fp[c], Fm[c]))]

\* The ghost cell after the write-back: the assigned fields remapped, the
\* others as they were.  On the ix1 face the passive-scalar line reads
\* "Flx[j].[n]", which names no field: its value is indeterminate.
RemapCell(b, inner, rg, Fp, Fm, old) ==
  [c \in Comps(b) |->
     IF c \notin WrittenFields(b) THEN old[c]
     ELSE IF c = "s0" /\ inner THEN Remapped(rg[c], Fp[c], Indet)
     ELSE Remapped(rg[c], Fp[c], Fm[c])]

\* variant that starts the ix1 ghost layers one column to the right
GhostColumnShifted(ii) == is - nghost + ii + 1

\* column of the ghost cells of layer ii
GhostColumnIx1(ii) == is - nghost + ii
GhostColumnOx1(ii) == ie + 1 + ii

\* the grid with column col of slice kk rewritten over j = js..je
WriteGhost(b, inner, G, kk, col, rg, F) ==
  [G EXCEPT ![kk] =
     [j \in JRange |->
        IF j \in js..je
        THEN [G[kk][j] EXCEPT ![col] =
                RemapCell(b, inner, rg[j], F[j + 1], F[j], G[kk][j][col])]
        ELSE G[kk][j]]]

\* end of one pass of the loop over i, then of the loop over k, then of
\* the face
NextLayer ==
  IF i < nghost - 1
  THEN /\ i' = i + 1
       /\ pc' = "step2"
       /\ UNCHANGED <<face, k>>
  ELSE /\ i' = 0
       /\ IF k < ke
          THEN /\ k' = k + 1
               /\ pc' = "gather"
               /\ UNCHANGED face
          ELSE /\ k' = ks
               /\ IF face = "ix1"
                  THEN face' = "ox1" /\ pc' = "gather"
                  ELSE face' = face /\ pc' = "ret"

\* ghost layer i of the ix1 face of slice k
WriteIx1 ==
  /\ pc = "write" /\ face = "ix1"
  /\ U' = WriteGhost(build, TRUE, U, k, GhostColumnIx1(i), RemapGas[i], Flx)
  /\ NextLayer
  /\ UNCHANGED <<params, exchanged, RemapGas, Flx, scratch, offsets>>

\* ghost layer i of the ox1 face of slice k
WriteOx1 ==
  /\ pc = "write" /\ face = "ox1"
  /\ U' = WriteGhost(build, FALSE, U, k, GhostColumnOx1(i), RemapGas[i], Flx)
  /\ NextLayer
  /\ exchanged' = (exchanged \/ pc' = "ret")
  /\ UNCHANGED <<params, RemapGas, Flx, scratch, offsets>>

(***************************************************************************)
(* The outer loop                                                          *)
(***************************************************************************)
\* after the boundary values of the gas are set, the integrator advances
\* pG->time by a time step
Tick ==
  /\ pc = "ret"
  /\ var_flag = 0
  /\ \E step \in dt :
       /\ Le(Add(time, step), Int2Real(MaxTime))
       /\ time' = Add(time, step)
  /\ pc' = "idle"
  /\ exchanged' = FALSE
  /\ UNCHANGED <<build, Omega, setup, U, RemapGas, Flx, scratch, offsets, face,
                 k, i>>

Next ==
  \/ \E vf \in VarFlags : Call(vf)
  \/ GatherIx1
  \/ GatherOx1
  \/ Pad
  \/ Slopes
  \/ FluxLinear
  \/ Interfaces
  \/ Edges
  \/ FluxParabolic
  \/ WriteIx1
  \/ WriteOx1
  \/ Tick

Spec == Init /\ [][Next]_vars

(***************************************************************************)
(* Calls of shear_ix1_ox1 that find other contents in the scratch buffers  *)
(***************************************************************************)
\* Between two calls the static buffers RemapGas, Flx and Uhalf, and the
\* automatic arrays of CompRemapFlux, may hold anything: here every entry
\* is replaced by the mark of a value that was not written.
Poisoned(b) == [ii \in 0..(nghost - 1) |-> IndetPencil(b)]
Poison ==
  /\ pc \in {"idle", "ret"}
  /\ RemapGas # Poisoned(build)
  /\ RemapGas' = Poisoned(build)
  /\ Flx' = IndetPencil(build)
  /\ Uhalf' = IndetPencil(build)
  /\ dUm' = IndetPencil(build)
  /\ Ulv' = IndetPencil(build)
  /\ Urv' = IndetPencil(build)
  /\ UNCHANGED <<params, exchanged, U, offsets, face, k, i, pc>>

ScratchInit == Init /\ Omega = Int2Real(MaxOmega)
ScratchNext == Next \/ Poison
ScratchSpec == ScratchInit /\ [][ScratchNext]_vars

(***************************************************************************)
(* problem(), problem_read_restart() and restarts, step by step            *)
(***************************************************************************)
SetupBuilds == {b \in Builds : b.adiabatic /\ ~b.mhd}

\* the configurations a run is started with: the grid of this model, a grid
\* of one cell in x2, a grid of no cell in x2, a box of no extent in x2
\* (x2max = x2min), and a box of negative extent (x2max < x2min)
SetupConfigs(w) ==
  {GridConfig(w),
   [GridConfig(w) EXCEPT !.Nx2 = 1],
   [GridConfig(w) EXCEPT !.Nx2 = 0],
   [GridConfig(w) EXCEPT !.dx2 = Zero, !.x2len = Zero],
   [GridConfig(w) EXCEPT !.dx2 = Neg(dx2), !.x2len = Neg(Ly)]}

\* A process starts in problem(), or in problem_read_restart() with the grid
\* and the time of a restart file written at time 0.  The static buffers do
\* not exist yet; the automatic arrays of CompRemapFlux hold anything.
SetupInit ==
  /\ build \in SetupBuilds
  /\ \E entry \in {"problem", "read_restart"} :
       \E cfg \in SetupConfigs(Int2Real(MaxOmega)) :
         /\ setup = Unset(entry, IF entry = "problem" THEN 0 ELSE 1, cfg)
         /\ \E g \in 1..NumGrids :
              U = IF entry = "read_restart" /\ cfg = GridConfig(cfg.omega)
                  THEN InitGrid(g, build) ELSE <<>>
  /\ Omega = Zero
  /\ time = Zero
  /\ RemapGas = <<>>
  /\ Flx = <<>>
  /\ Uhalf = <<>>
  /\ dUm = IndetPencil(build)
  /\ Ulv = IndetPencil(build)
  /\ Urv = IndetPencil(build)
  /\ var_flag = 0
  /\ deltay = Zero
  /\ j_offset = 0
  /\ epsi = Zero
  /\ epso = Zero
  /\ face = "ix1"
  /\ k = ks
  /\ i = 0
  /\ exchanged = FALSE
  /\ pc = "setup"

\* ath_error() reports and ends the process
ath_error == "aborted"

\* problem(): if (pGrid->Nx2 == 1) ath_error(...)
ProblemCheck ==
  /\ pc = "setup" /\ setup.entry = "problem"
  /\ pc' = IF setup.cfg.Nx2 = 1 THEN ath_error ELSE "params"
  /\ UNCHANGED <<params, exchanged, U, RemapGas, Flx, scratch, offsets, face,
                 k, i>>

\* variant of the setup that leaves the x1 boundary hooks as they were
GlobalsWithoutHooks(su) ==
  [su EXCEPT !.Lx = su.cfg.x1len, !.Ly = su.cfg.x2len,
             !.nmax = su.cfg.Nx2 + 2 * nghost]

\* Lx, Ly, Omega, the x1 boundary hooks and nmax as both routines set them
Globals(su) ==
  [su EXCEPT !.Lx = su.cfg.x1len, !.Ly = su.cfg.x2len,
             !.hooks = <<"no_op", "no_op">>,
             !.nmax = su.cfg.Nx2 + 2 * nghost]

\* problem(): box size, Omega, the initial data (of the grid of this model
\* only), the hooks and nmax
ProblemParams ==
  /\ pc = "params"
  /\ setup' = Globals(setup)
  /\ Omega' = setup.cfg.omega
  /\ \E g \in 1..NumGrids :
       U' = IF setup.cfg = GridConfig(setup.cfg.omega)
            THEN InitGrid(g, build) ELSE U
  /\ pc' = "alloc"
  /\ UNCHANGED <<build, time, exchanged, RemapGas, Flx, scratch, offsets,
                 face, k, i>>

\* variant of problem_read_restart() that does not read Omega
RestartParamsWithoutOmega ==
  /\ pc = "setup" /\ setup.entry = "read_restart"
  /\ setup' = Globals(setup)
  /\ pc' = "alloc"
  /\ UNCHANGED <<build, Omega, time, exchanged, U, RemapGas, Flx, scratch,
                 offsets, face, k, i>>

\* problem_read_restart(): Omega, box size, the hooks and nmax
RestartParams ==
  /\ pc = "setup" /\ setup.entry = "read_restart"
  /\ setup' = Globals(setup)
  /\ Omega' = setup.cfg.omega
  /\ pc' = "alloc"
  /\ UNCHANGED <<build, time, exchanged, U, RemapGas, Flx, scratch, offsets,
                 face, k, i>>

\* variant that goes on after an allocation that returned NULL
AfterAllocUnchecked(ok, last) == IF last THEN "returned" ELSE "alloc"

\* after one allocation: ath_error if it returned NULL, else the next
\* allocation or the return of the routine
AfterAlloc(ok, last) ==
  IF ~ok THEN ath_error ELSE IF last THEN "returned" ELSE "alloc"

\* one allocation of either routine: malloc leaves the contents
\* indeterminate, calloc_2d_array zeroes them; either may return NULL
Allocate ==
  /\ pc = "alloc"
  /\ \E ok \in BOOLEAN :
       /\ setup' = [setup EXCEPT
                      !.nalloc = setup.nalloc + 1,
                      !.ptr[setup.nalloc + 1] = IF ok THEN "allocated" ELSE "NULL"]
       /\ Flx' = IF ok /\ Buffers[setup.nalloc + 1] = "Flx"
                 THEN [j \in 0..(setup.nmax - 1) |-> IndetGas(build)]
                 ELSE Flx
       /\ RemapGas' = IF ok /\ Buffers[setup.nalloc + 1] = "RemapGas"
                      THEN [ii \in 0..(nghost - 1) |->
                              [j \in 0..(setup.nmax - 1) |-> ZeroGas(build)]]
                      ELSE RemapGas
       /\ Uhalf' = IF ok /\ Buffers[setup.nalloc + 1] = "Uhalf"
                   THEN [j \in 0..(setup.nmax - 1) |-> ZeroGas(build)]
                   ELSE Uhalf
       /\ pc' = AfterAlloc(ok, setup.nalloc + 1 = NumBuffers(build))
  /\ UNCHANGED <<build, Omega, time, exchanged, U, dUm, Ulv, Urv, offsets,
                 face, k, i>>

\* the setup routine has returned: the main program sets the boundary
\* values (followed here on the grid of this model only)
EnterLoop ==
  /\ pc = "returned"
  /\ setup.cfg = GridConfig(setup.cfg.omega)
  /\ pc' = "idle"
  /\ UNCHANGED <<params, exchanged, U, RemapGas, Flx, scratch, offsets, face,
                 k, i>>

\* The run is ended after an exchange and started again from a restart
\* file.  problem_write_restart() has written nothing; the file holds the
\* grid and the time.  The new process starts in problem_read_restart().
Restart ==
  /\ pc = "ret" /\ exchanged
  /\ setup.restarts < MaxRestarts
  /\ setup' = Unset("read_restart", setup.restarts + 1, setup.cfg)
  /\ Omega' = Zero
  /\ RemapGas' = <<>>
  /\ Flx' = <<>>
  /\ Uhalf' = <<>>
  /\ dUm' = IndetPencil(build)
  /\ Ulv' = IndetPencil(build)
  /\ Urv' = IndetPencil(build)
  /\ var_flag' = 0
  /\ deltay' = Zero
  /\ j_offset' = 0
  /\ epsi' = Zero
  /\ epso' = Zero
  /\ face' = "ix1"
  /\ k' = ks
  /\ i' = 0
  /\ pc' = "setup"
  /\ UNCHANGED <<build, time, U, exchanged>>

\* no_op_VGfun(pGrid, phi_flag): return
no_op_VGfun(G, phi_flag) == G

\* the x1 boundary function that the grid calls when none is enrolled in its
\* place: it fills the x1 ghost cells of its side with the periodic image
DefaultVGfun(G, side) ==
  [kk \in DOMAIN G |-> [j \in DOMAIN G[kk] |-> [col \in DOMAIN G[kk][j] |->
     IF side = 1 /\ col < is THEN G[kk][j][col + Nx1]
     ELSE IF side = 2 /\ col > ie THEN G[kk][j][col - Nx1]
     ELSE G[kk][j][col]]]]

\* set_bvals reaches the x1 boundaries of the grid
HookCall ==
  /\ pc = "idle"
  /\ pc' = "hook"
  /\ UNCHANGED <<params, exchanged, U, RemapGas, Flx, scratch, offsets, face,
                 k, i>>

\* the function enrolled for one side of x1 runs and returns
HookRun ==
  /\ pc = "hook"
  /\ \E side \in {1, 2} : \E phi_flag \in {0, 1} :
       U' = IF setup.hooks[side] = "no_op"
            THEN no_op_VGfun(U, phi_flag)
            ELSE DefaultVGfun(U, side)
  /\ pc' = "idle"
  /\ UNCHANGED <<params, exchanged, RemapGas, Flx, scratch, offsets, face,
                 k, i>>

SetupNext ==
  \/ ProblemCheck
  \/ ProblemParams
  \/ RestartParams
  \/ Allocate
  \/ EnterLoop
  \/ Restart
  \/ HookCall
  \/ HookRun
  \/ Next

SetupSpec == SetupInit /\ [][SetupNext]_vars

(***************************************************************************)
(* The exchange in a build with passive scalars (NSCALARS > 0)             *)
(***************************************************************************)
\* The text of such a build contains line 408; what its passive-scalar
\* write-back stores is taken as indeterminate (see RemapCell).
ScalarBuilds ==
  {b \in BuildConfigs : b.nscalars > 0 /\ ~b.adiabatic /\ ~b.mhd}

ScalarInit ==
  /\ build \in ScalarBuilds
  /\ Omega = Int2Real(MaxOmega)
  /\ time = Zero
  /\ \E g \in 1..NumGrids : U = InitGrid(g, build)
  /\ RemapGas = [ii \in 0..(nghost - 1) |->
                   [j \in 0..(nmax - 1) |-> ZeroGas(build)]]
  /\ Flx = IndetPencil(build)
  /\ Uhalf = [j \in 0..(nmax - 1) |-> ZeroGas(build)]
  /\ dUm = IndetPencil(build)
  /\ Ulv = IndetPencil(build)
  /\ Urv = IndetPencil(build)
  /\ var_flag = 0
  /\ deltay = Zero
  /\ j_offset = 0
  /\ epsi = Zero
  /\ epso = Zero
  /\ face = "ix1"
  /\ k = ks
  /\ i = 0
  /\ setup = Established(build, Omega)
  /\ exchanged = FALSE
  /\ pc = "idle"

ScalarSpec == ScalarInit /\ [][Next]_vars

(***************************************************************************)
(* CompRemapFlux(U, eps, il, iu, Flux) called on its own                   *)
(***************************************************************************)
\* The pencil U[] is RemapGas[0], eps is epsi, and il, iu are those of a
\* pencil with nghost halo cells on each side, as shear_ix1_ox1 passes them.
KernelBuilds == {b \in Builds : ~b.adiabatic /\ ~b.mhd}
KernelEps == {<<1, 4>>, <<-1, 4>>, <<1, 2>>, <<-1, 2>>}

\* a cell with density dv and orbital momentum mv
KernelGas(b, dv, mv) ==
  [c \in Comps(b) |->
     IF c = "d" THEN Int2Real(dv) ELSE IF c = "M2" THEN Int2Real(mv) ELSE Zero]

\* the periodic 8-cell pencil of density 1,1,1,1,2,2,2,2
Scenario == <<1, 1, 1, 1, 2, 2, 2, 2>>

\* periodic pencils: the cells seq between the halos, the halos their
\* periodic images, zero momentum
PeriodicPencil(b, seq) ==
  [x \in 0..(Len(seq) + 2 * nghost - 1) |->
     KernelGas(b, seq[((x - nghost + nghost * Len(seq)) % Len(seq)) + 1], 0)]

\* pencils given cell by cell, halos included: density seq, momentum -seq
PlainPencil(b, seq) ==
  [x \in 0..(Len(seq) - 1) |-> KernelGas(b, seq[x + 1], -seq[x + 1])]

\* the nondecreasing sequences of n values in lo..MaxLevel
RECURSIVE Nondecreasing(_, _)
Nondecreasing(n, lo) ==
  IF n = 0 THEN {<<>>}
  ELSE UNION {{<<v>> \o t : t \in Nondecreasing(n - 1, v)} : v \in lo..MaxLevel}

\* the sequences of n values that start at v and whose differences decrease
\* strictly from at most hi down to at least -MaxStep (concave profiles)
RECURSIVE Concave(_, _, _)
Concave(n, v, hi) ==
  IF n = 1 THEN {<<v>>}
  ELSE UNION {{<<v>> \o t : t \in Concave(n - 1, v + step, step - 1)} :
                step \in (-MaxStep)..hi}

KernelPencils(b) ==
  {PeriodicPencil(b, seq) : seq \in [1..Len(Scenario) -> {1, 2}]}
    \cup {PlainPencil(b, seq) :
            seq \in Nondecreasing(MonoCells + 2 * nghost, 0)}
    \cup {PlainPencil(b, seq) :
            seq \in Concave(MonoCells + 2 * nghost, 0, MaxStep)}

KernelInit ==
  /\ build \in KernelBuilds
  /\ RemapGas \in {(0 :> Up) : Up \in KernelPencils(build)}
  /\ epsi \in KernelEps
  /\ epso = Neg(epsi)
  /\ Flx = [x \in DOMAIN RemapGas[0] |-> IndetGas(build)]
  /\ Uhalf = [x \in DOMAIN RemapGas[0] |-> ZeroGas(build)]
  /\ dUm = [x \in DOMAIN RemapGas[0] |-> IndetGas(build)]
  /\ Ulv = [x \in DOMAIN RemapGas[0] |-> IndetGas(build)]
  /\ Urv = [x \in DOMAIN RemapGas[0] |-> IndetGas(build)]
  /\ Omega = Zero
  /\ time = Zero
  /\ U = <<>>
  /\ var_flag = 0
  /\ deltay = Zero
  /\ j_offset = 0
  /\ face = "ix1"
  /\ k = ks
  /\ i = 0
  /\ setup = Established(build, Omega)
  /\ exchanged = FALSE
  /\ pc = "step2"

\* the arguments il, iu and the cells of the loops over [il-1, iu+1]
KernelIl == nghost
KernelIu == Cardinality(DOMAIN RemapGas[0]) - nghost
KernelCellsFromBelow == (KernelIl - 2)..(KernelIu + 1)
KernelCells == (KernelIl - 1)..(KernelIu + 1)

\* what a step of the kernel leaves alone besides its own arrays
kernelArgs == <<params, exchanged, U, RemapGas, offsets, face, k, i>>

\* SECOND_ORDER, Steps 2-3 of every cell
KernelSlopes ==
  /\ pc = "step2" /\ build.order = 2
  /\ dUm' = [x \in DOMAIN dUm |->
               IF x \in KernelCells
               THEN [c \in Comps(build) |-> LimitedSlope(RemapGas[0], x, c)]
               ELSE dUm[x]]
  /\ pc' = "step4"
  /\ UNCHANGED <<kernelArgs, Flx, Uhalf, Ulv, Urv>>

\* SECOND_ORDER, Step 4 of every cell
KernelFluxLinear ==
  /\ pc = "step4"
  /\ Flx' = [x \in DOMAIN Flx |->
               IF FluxCell(epsi, x) \in KernelCells
               THEN [c \in Comps(build) |->
                       IntegrateLinear(epsi,
                                       RemapGas[0][FluxCell(epsi, x)][c],
                                       dUm[FluxCell(epsi, x)][c])]
               ELSE Flx[x]]
  /\ pc' = "flux"
  /\ UNCHANGED <<kernelArgs, scratch>>

\* THIRD_ORDER, Step 2: the interface states over [il-1, iu+2]
KernelInterfaces ==
  /\ pc = "step2" /\ build.order = 3
  /\ Uhalf' = [x \in DOMAIN Uhalf |->
                 IF x \in (KernelIl - 1)..(KernelIu + 2)
                 THEN [c \in Comps(build) |-> InterfaceState(RemapGas[0], x, c)]
                 ELSE Uhalf[x]]
  /\ pc' = "step3"
  /\ UNCHANGED <<kernelArgs, Flx, dUm, Ulv, Urv>>

\* THIRD_ORDER, Steps 3-5 of every cell
KernelEdges ==
  /\ pc = "step3"
  /\ Ulv' = [x \in DOMAIN Ulv |->
               IF x \in KernelCells
               THEN [c \in Comps(build) |->
                       EdgeValues(RemapGas[0], Uhalf, x, c)[1]]
               ELSE Ulv[x]]
  /\ Urv' = [x \in DOMAIN Urv |->
               IF x \in KernelCells
               THEN [c \in Comps(build) |->
                       EdgeValues(RemapGas[0], Uhalf, x, c)[2]]
               ELSE Urv[x]]
  /\ pc' = "step6"
  /\ UNCHANGED <<kernelArgs, Flx, Uhalf, dUm>>

\* THIRD_ORDER, Steps 6-7 of every cell
KernelFluxParabolic ==
  /\ pc = "step6"
  /\ Flx' = [x \in DOMAIN Flx |->
               IF FluxCell(epsi, x) \in KernelCells
               THEN [c \in Comps(build) |->
                       ParabolaFlux(epsi,
                                    RemapGas[0][FluxCell(epsi, x)][c],
                                    <<Ulv[FluxCell(epsi, x)][c],
                                      Urv[FluxCell(epsi, x)][c]>>)]
               ELSE Flx[x]]
  /\ pc' = "flux"
  /\ UNCHANGED <<kernelArgs, scratch>>

KernelNext ==
  \/ KernelSlopes
  \/ KernelFluxLinear
  \/ KernelInterfaces
  \/ KernelEdges
  \/ KernelFluxParabolic

KernelSpec == KernelInit /\ [][KernelNext]_vars

(***************************************************************************)
(* The padding loop on grids of other sizes in x2                          *)
(***************************************************************************)
\* variant of the padding that takes every copy from the buffer as it was
\* before the loop
PadRowsAtOnce(row, lo, hi, m) ==
  [x \in DOMAIN row |->
     IF x < lo THEN row[x + (hi - lo + 1)]
     ELSE IF x > hi THEN row[x - (hi - lo + 1)]
     ELSE row[x]]

\* the loop "for(j=1; j<=nghost; j++)" over one pencil whose active cells
\* are lo..hi (js..je), from iteration m on, the two copies in their order
RECURSIVE PadRows(_, _, _, _)
PadRows(row, lo, hi, m) ==
  IF m > nghost THEN row
  ELSE PadRows([[row EXCEPT ![lo - m] = row[hi + 1 - m]]
                  EXCEPT ![hi + m] = row[lo + m - 1]], lo, hi, m + 1)

\* before the loop: layer ii gathered into the cells js..je of its pencil
\* (seq shifted by ii), the halo not yet written
GatheredPencil(b, seq, ii) ==
  [x \in 0..(Len(seq) + 2 * nghost - 1) |->
     IF x \in js..(js + Len(seq) - 1)
     THEN KernelGas(b, seq[x - js + 1] + ii, -seq[x - js + 1])
     ELSE IndetGas(b)]

PadInit ==
  /\ build \in KernelBuilds
  /\ \E n2 \in 1..MaxCells : \E seq \in [1..n2 -> 0..2] :
       /\ setup = [Established(build, Zero) EXCEPT
                     !.cfg.Nx2 = n2, !.nmax = n2 + 2 * nghost]
       /\ RemapGas = [ii \in 0..(nghost - 1) |-> GatheredPencil(build, seq, ii)]
  /\ Flx = [x \in DOMAIN RemapGas[0] |-> IndetGas(build)]
  /\ Uhalf = [x \in DOMAIN RemapGas[0] |-> ZeroGas(build)]
  /\ dUm = [x \in DOMAIN RemapGas[0] |-> IndetGas(build)]
  /\ Ulv = [x \in DOMAIN RemapGas[0] |-> IndetGas(build)]
  /\ Urv = [x \in DOMAIN RemapGas[0] |-> IndetGas(build)]
  /\ Omega = Zero
  /\ time = Zero
  /\ U = <<>>
  /\ var_flag = 0
  /\ deltay = Zero
  /\ j_offset = 0
  /\ epsi = Zero
  /\ epso = Zero
  /\ face = "ix1"
  /\ k = ks
  /\ i = 0
  /\ exchanged = FALSE
  /\ pc = "pad"

\* "Apply y-periodicity to RemapGas array", on a grid of setup.cfg.Nx2 cells
PadPencils ==
  /\ pc = "pad"
  /\ RemapGas' = [ii \in DOMAIN RemapGas |->
                    PadRows(RemapGas[ii], js, js + setup.cfg.Nx2 - 1, 1)]
  /\ i' = 0
  /\ pc' = "step2"
  /\ UNCHANGED <<params, exchanged, U, Flx, scratch, offsets, face, k>>

PadSpec == PadInit /\ [][PadPencils]_vars

(***************************************************************************)
(* Properties of the shearing-sheet exchange                               *)
(***************************************************************************)
\* sum of component c of row over the cells a..b
RECURSIVE SumOver(_, _, _, _)
SumOver(row, c, a, b) ==
  IF a > b THEN Zero ELSE Add(row[a][c], SumOver(row, c, a + 1, b))

\* the ghost and the source column of the layer in progress
GhostColumn == IF face = "ix1" THEN GhostColumnIx1(i) ELSE GhostColumnOx1(i)
SourceColumn == IF face = "ix1" THEN SourceColumnIx1(i) ELSE SourceColumnOx1(i)

\* the source row read for row j on the face in progress
SourceRow(j) ==
  IF face = "ix1" THEN JRemapIx1(j, j_offset) ELSE JRemapOx1(j, j_offset)

\* column col of slice kk as a pencil over j
ColumnOf(G, kk, col) == [j \in JRange |-> G[kk][j][col]]

\* the interfaces that CompRemapFlux assigns
WrittenInterfaces(eps) == {x \in 0..(nmax - 1) : FluxCell(eps, x) \in Cells}

\* every cell of the pencil, halo included, holds the same value in c
Uniform(row, c) == \A x \in DOMAIN row : row[x][c] = row[js][c]

\* mathematical floor of a Real
Floor(x) == x[1] \div x[2]

\* the offsets in the state are those of a call at the current time
OffsetsCurrent == pc # "idle" /\ var_flag = 0

\* C1: at every write-back of a ghost layer (either face, every slice, layer
\* and component) the fluxes telescope, Flx[je+1] = Flx[js]; the sum over
\* j = js..je of the values written equals the sum of the gathered values
\* RemapGas[i][j]; and the density written sums to the density of the source
\* column before the exchange.
C1_RemapConserves ==
  [][pc = "write" =>
       /\ \A c \in Comps(build) :
            /\ Flx[je + 1][c] = Flx[js][c]
            /\ SumOver(ColumnOf(U', k, GhostColumn), c, js, je)
                 = SumOver(RemapGas[i], c, js, je)
       /\ SumOver(ColumnOf(U', k, GhostColumn), "d", js, je)
            = SumOver(ColumnOf(U, k, SourceColumn), "d", js, je)]_vars

\* C2: when the pencil handed to CompRemapFlux is uniform in a component,
\* halo included, the flux of that component is eps times the value at
\* every interface the kernel assigns, in both reconstruction orders.
C2_UniformPencilFlux ==
  pc = "write" =>
    \A c \in Comps(build) :
      Uniform(RemapGas[i], c) =>
        \A x \in WrittenInterfaces(CallEps) :
          Flx[x][c] = Mul(CallEps, RemapGas[i][js][c])

\* C2 witness: a third-order flux of a uniform nonzero pencil with a
\* nonzero shift
C2_UniformPencilSeen ==
  /\ pc = "write"
  /\ build.order = 3
  /\ CallEps # Zero
  /\ \E c \in Comps(build) :
       Uniform(RemapGas[i], c) /\ RemapGas[i][js][c] # Zero

\* C3: with eps = 0 the flux is zero in every component at every interface
\* of [il, iu+1], and the write-back stores each gathered cell unchanged.
C3_ZeroShiftIdentity ==
  [][(pc = "write" /\ CallEps = Zero) =>
       /\ \A x \in il..(iu + 1) : \A c \in Comps(build) : Flx[x][c] = Zero
       /\ \A j \in js..je : U'[k][j][GhostColumn] = RemapGas[i][j]]_vars

\* C3 witness: a whole-cell shift (eps = 0, j_offset > 0) whose first ghost
\* layer has been written from a pencil that is not uniform
C3_ZeroShiftSeen ==
  /\ pc = "write"
  /\ i = 1
  /\ CallEps = Zero
  /\ j_offset > 0
  /\ \E c \in Comps(build) :
       /\ RemapGas[0][js][c] # RemapGas[0][js + 1][c]
       /\ \A j \in js..je :
            U[k][j][GhostColumnIx1(0)][c] = RemapGas[0][j][c]

\* C4: when the total shear is zero or exactly Ly, the offset of the call
\* is j_offset = 0 and epsi = 0.
C4_OffsetWrapsToZero ==
  (OffsetsCurrent
     /\ (time = Zero \/ YShear(Omega, time) = Ly))
    => (j_offset = 0 /\ epsi = Zero /\ epso = Zero)

\* C4 witness: a call at a total shear of exactly Ly
C4_ShearOfOneBoxSeen ==
  /\ OffsetsCurrent
  /\ YShear(Omega, time) = Ly
  /\ j_offset = 0
  /\ epsi = Zero

\* C5: the wrapped shear deltay of every call lies in [0, Ly).
C5_DeltaYInBox ==
  OffsetsCurrent => (Le(Zero, deltay) /\ Lt(deltay, Ly))

\* C6: j_offset is floor(deltay/dx2), epsi lies in [0,1), the two recompose
\* deltay, and j_offset lies in [0, Ly/dx2).
C6_OffsetDecomposition ==
  OffsetsCurrent =>
    /\ j_offset = Floor(Div(deltay, dx2))
    /\ Le(Zero, epsi) /\ Lt(epsi, One)
    /\ Add(Mul(Int2Real(j_offset), dx2), Mul(epsi, dx2)) = deltay
    /\ 0 <= j_offset /\ Lt(Int2Real(j_offset), Div(Ly, dx2))

\* C7: on both faces the source row of every j in [js, je], after the
\* wrap, lies in [js, je].
C7_SourceRowInRange ==
  OffsetsCurrent =>
    \A j \in js..je :
      /\ JRemapIx1(j, j_offset) \in js..je
      /\ JRemapOx1(j, j_offset) \in js..je

\* C8: a step of the exchange changes a grid cell only if it is an x1 ghost
\* cell, i in [is-nghost, is-1] or [ie+1, ie+nghost], with j in [js, je]
\* and k in [ks, ke]; the cells with i in [is, ie] keep their values.
C8_OnlyGhostZonesWritten ==
  [][\A kk \in KRange : \A j \in JRange : \A ii \in IRange :
       U'[kk][j][ii] # U[kk][j][ii] =>
         /\ ii \in (is - nghost)..(is - 1) \cup (ie + 1)..(ie + nghost)
         /\ j \in js..je
         /\ kk \in ks..ke]_vars

\* C8 witness: a completed exchange that has filled ghost cells on both
\* faces
C8_GhostZonesFilled ==
  /\ pc = "ret"
  /\ var_flag = 0
  /\ U[ks][js][is - 1]["d"] # Zero
  /\ U[ke][je][ie + 1]["d"] # Zero

\* C9: a call with var_flag == 1 returns at once and leaves the grid,
\* RemapGas and Flx as they are.
C9_PotentialClassNoOp ==
  [][var_flag' = 1 => (pc' = "ret" /\ UNCHANGED <<U, RemapGas, Flx>>)]_vars

\* C9 witness: a call with var_flag == 1 has returned on a grid whose
\* ghost zones hold remapped data
C9_PotentialCallReturned ==
  /\ pc = "ret"
  /\ var_flag = 1
  /\ U[ks][js][is - 1]["d"] # Zero
  /\ Flx[js]["d"] # Indet

\* C10: every component of the conserved state (all NVAR of the build) is
\* gathered and written: after the gather each component that carries no
\* boost equals its source cell in RemapGas, and after an exchange at zero
\* offset each such component of a ghost cell equals its source cell.
C10_EveryComponentRemapped ==
  /\ pc = "pad" =>
       \A ii \in 0..(nghost - 1) : \A j \in js..je :
         \A c \in Comps(build) \ {"M2", "E"} :
           RemapGas[ii][j][c]
             = U[k][SourceRow(j)]
                [IF face = "ix1" THEN SourceColumnIx1(ii)
                 ELSE SourceColumnOx1(ii)][c]
  /\ (pc = "ret" /\ var_flag = 0 /\ j_offset = 0 /\ epsi = Zero) =>
       \A kk \in ks..ke : \A j \in js..je : \A ii \in 0..(nghost - 1) :
         \A c \in Comps(build) \ {"M2", "E"} :
           /\ U[kk][j][GhostColumnIx1(ii)][c]
                = U[kk][j][SourceColumnIx1(ii)][c]
           /\ U[kk][j][GhostColumnOx1(ii)][c]
                = U[kk][j][SourceColumnOx1(ii)][c]

\* the cell that the gather of the face in progress reads for RemapGas[ii][j]
SourceCell(ii, j) ==
  U[k][SourceRow(j)][IF face = "ix1" THEN SourceColumnIx1(ii)
                     ELSE SourceColumnOx1(ii)]

\* C11: both faces of a call use one offset: epso = -epsi, and no step
\* inside the call changes deltay, j_offset, epsi or epso; the ix1 gather
\* reads row j - j_offset and the ox1 gather row j + j_offset (up to one
\* wrap by Nx2) of the same slice; the gathered M2 exceeds the source M2
\* by +1.5*Omega*Lx*d on the ix1 face and by -1.5*Omega*Lx*d on the ox1
\* face, d being the density of the cell.
C11_FacesMirror ==
  [][/\ OffsetsCurrent => epso = Neg(epsi)
     /\ pc \notin {"idle", "ret"} =>
          UNCHANGED <<deltay, j_offset, epsi, epso>>
     /\ pc = "gather" =>
          \A ii \in 0..(nghost - 1) : \A j \in js..je :
            \E w \in {0, 1} :
              LET row == IF face = "ix1" THEN j - j_offset + w * Nx2
                         ELSE j + j_offset - w * Nx2
                  col == IF face = "ix1" THEN ie - nghost + 1 + ii
                         ELSE is + ii
                  shear == Mul(Mul(Mul(<<3, 2>>, Omega), Lx),
                               U[k][row][col]["d"])
              IN  /\ row \in JRange
                  /\ RemapGas'[ii][j]["d"] = U[k][row][col]["d"]
                  /\ Sub(RemapGas'[ii][j]["M2"], U[k][row][col]["M2"])
                       = IF face = "ix1" THEN shear ELSE Neg(shear)]_vars

\* C11 witness: the ox1 gather of a call with a nonzero shear rate, a shift
\* of whole cells and a fraction has changed M2
C11_BothFacesGathered ==
  /\ pc = "pad"
  /\ face = "ox1"
  /\ Omega # Zero
  /\ j_offset > 0
  /\ epsi # Zero
  /\ RemapGas[0][js]["M2"] # SourceCell(0, js)["M2"]
  /\ RemapGas[0][js]["d"] = SourceCell(0, js)["d"]

\* C12: in a build with ADIABATIC, every gathered cell of positive density
\* keeps its internal energy: E - 0.5*M2^2/d of the gathered cell equals
\* E - 0.5*M2^2/d of its source cell, on both faces.
C12_EnergyBoostCorrection ==
  (pc = "pad" /\ build.adiabatic) =>
    \A ii \in 0..(nghost - 1) : \A j \in js..je :
      Gt(SourceCell(ii, j)["d"], Zero) =>
        Sub(RemapGas[ii][j]["E"],
            Div(Mul(Half, SQR(RemapGas[ii][j]["M2"])), RemapGas[ii][j]["d"]))
          = Sub(SourceCell(ii, j)["E"],
                Div(Mul(Half, SQR(SourceCell(ii, j)["M2"])),
                    SourceCell(ii, j)["d"]))

\* C12 witness: a gathered cell whose energy the boost has changed
C12_EnergyChanged ==
  /\ pc = "pad"
  /\ build.adiabatic
  /\ \E ii \in 0..(nghost - 1) : \E j \in js..je :
       /\ Gt(SourceCell(ii, j)["d"], Zero)
       /\ RemapGas[ii][j]["E"] # SourceCell(ii, j)["E"]

(***************************************************************************)
(* Properties of CompRemapFlux, checked under KernelSpec                   *)
(***************************************************************************)
\* the pencil handed to the kernel, one component of it
KernelU(c) == [x \in DOMAIN RemapGas[0] |-> RemapGas[0][x][c]]

\* cell x of pencil q is a strict local extremum whose three neighbouring
\* second differences (centered on x-1, x, x+1) have one strict sign
SecondDifference(q, x) == Sub(Add(q[x - 1], q[x + 1]), Mul(Two, q[x]))
SmoothExtremum(q, x) ==
  /\ \/ Gt(q[x], q[x - 1]) /\ Gt(q[x], q[x + 1])
     \/ Lt(q[x], q[x - 1]) /\ Lt(q[x], q[x + 1])
  /\ \/ \A y \in {x - 1, x, x + 1} : Lt(SecondDifference(q, y), Zero)
     \/ \A y \in {x - 1, x, x + 1} : Gt(SecondDifference(q, y), Zero)

\* C13: in the third-order build, in a cell that is a smooth local extremum
\* of the pencil, the left and right edge values from which the parabola is
\* built are not both equal to the cell average.
C13_ExtremumNotFlattened ==
  (pc = "step6" /\ build.order = 3) =>
    \A c \in Comps(build) : \A x \in KernelCells :
      SmoothExtremum(KernelU(c), x) =>
        ~(Ulv[x][c] = RemapGas[0][x][c] /\ Urv[x][c] = RemapGas[0][x][c])

\* a nondecreasing / nonincreasing pencil
Rising(q) == \A x \in DOMAIN q : (x + 1) \in DOMAIN q => Le(q[x], q[x + 1])
Falling(q) == \A x \in DOMAIN q : (x + 1) \in DOMAIN q => Le(q[x + 1], q[x])

\* C14: in the second-order build, for a monotone pencil, the limited slope
\* of every cell has the sign of the data trend (strictly so where the data
\* change strictly on both sides of the cell), and the edge values
\* U[i] - dUm/2 and U[i] + dUm/2 lie between U[i-1] and U[i+1].
C14_LimitedSlopeMonotone ==
  (pc = "step4" /\ build.order = 2) =>
    \A c \in Comps(build) : \A x \in KernelCells :
      LET q == KernelU(c)
          lo == Sub(q[x], Mul(Half, dUm[x][c]))
          hi == Add(q[x], Mul(Half, dUm[x][c]))
      IN  /\ Rising(q) =>
                /\ Le(Zero, dUm[x][c])
                /\ (Lt(q[x - 1], q[x]) /\ Lt(q[x], q[x + 1])) => Lt(Zero, dUm[x][c])
                /\ Le(q[x - 1], lo) /\ Le(hi, q[x + 1])
          /\ Falling(q) =>
                /\ Le(dUm[x][c], Zero)
                /\ (Gt(q[x - 1], q[x]) /\ Gt(q[x], q[x + 1])) => Lt(dUm[x][c], Zero)
                /\ Le(q[x + 1], hi) /\ Le(lo, q[x - 1])

\* a monotone pencil with a cell of non-zero slope has had its slopes limited
C14_SlopedCellLimited ==
  /\ pc = "step4" /\ build.order = 2
  /\ Rising(KernelU("d"))
  /\ \E x \in KernelCells :
       /\ Gt(dUm[x]["d"], Zero)
       /\ Lt(dUm[x]["d"],
             Mul(Half, Sub(RemapGas[0][x + 1]["d"], RemapGas[0][x - 1]["d"])))

\* C15: in the second-order build, for the periodic pencil of density
\* 1,1,1,1,2,2,2,2 and zero momentum, every limited slope is zero; with
\* eps = 1/4 the flux at interface i+1 is U[i]/4, and with eps = -1/4 the
\* flux at interface i is -U[i]/4, in every component.
C15_TwoLevelPencilFlux ==
  (build.order = 2 /\ RemapGas[0] = PeriodicPencil(build, Scenario)) =>
    /\ pc \in {"step4", "flux"} =>
         \A c \in Comps(build) : \A x \in KernelCells : dUm[x][c] = Zero
    /\ (pc = "flux" /\ epsi = <<1, 4>>) =>
         \A c \in Comps(build) : \A x \in KernelCells :
           Flx[x + 1][c] = Mul(<<1, 4>>, RemapGas[0][x][c])
    /\ (pc = "flux" /\ epsi = <<-1, 4>>) =>
         \A c \in Comps(build) : \A x \in KernelCells :
           Flx[x][c] = Mul(<<-1, 4>>, RemapGas[0][x][c])

\* the two-level pencil has been remapped with eps = 1/4: the flux through
\* the interface above a density-2 cell is 1/2, above a density-1 cell 1/4
C15_TwoLevelFluxComputed ==
  /\ pc = "flux" /\ build.order = 2 /\ epsi = <<1, 4>>
  /\ RemapGas[0] = PeriodicPencil(build, Scenario)
  /\ Flx[nghost + 1]["d"] = <<1, 4>>
  /\ Flx[nghost + 5]["d"] = <<1, 2>>

(***************************************************************************)
(* Properties of repeated calls                                            *)
(***************************************************************************)
\* C16: a call of shear_ix1_ox1 made after an exchange has completed, with
\* pG->time, the parameters and the interior unchanged, leaves every cell of
\* the grid as the first call left it.
C16_RepeatedCallIdempotent == [][exchanged => U' = U]_vars

\* a repeated call at a sheared time has rewritten the whole ix1 face
C16_RepeatedCallWriting ==
  /\ exchanged /\ pc = "gather" /\ face = "ox1"
  /\ Omega # Zero /\ epsi # Zero

\* every entry of the pencil that CompRemapFlux is about to read, and every
\* flux that the write-back is about to read, has been written
ReadsWritten ==
  /\ pc = "step2" =>
       \A j \in 0..(nmax - 1) : \A c \in Comps(build) : ~IsNaN(RemapGas[i][j][c])
  /\ pc = "write" =>
       \A j \in js..(je + 1) : \A c \in WrittenFields(build) : ~IsNaN(Flx[j][c])

\* C17: the ghost-zone values written by a call do not depend on what the
\* scratch buffers hold at its entry (a repeated call that finds other
\* contents leaves the grid as the first call left it), and every buffer
\* entry read during a call was written earlier in the same call.
C17_ScratchCarriesNoState ==
  [][exchanged => U' = U]_vars /\ []ReadsWritten

(***************************************************************************)
(* Properties of the setup routines                                        *)
(***************************************************************************)
\* the positions inside a setup routine, and after ath_error
SetupPositions == {"setup", "params", "alloc", "aborted"}

\* C18: if an allocation of problem() or problem_read_restart() returns
\* NULL, ath_error is called and the routine does not return; no position
\* after the routine is reached with a scratch buffer that is NULL.
C18_AllocationFailureFatal ==
  /\ (\E n \in 1..setup.nalloc : setup.ptr[n] = "NULL") => pc = "aborted"
  /\ pc \notin SetupPositions =>
       \A n \in 1..NumBuffers(build) : setup.ptr[n] = "allocated"

\* the allocation of RemapGas has failed in problem_read_restart()
C18_RestartAllocationFailed ==
  /\ pc = "aborted" /\ setup.entry = "read_restart"
  /\ setup.nalloc = 2 /\ setup.ptr[2] = "NULL"

\* C19: a configuration with Ly <= 0, Nx2 <= 0 or dx2 = 0 never gets past
\* the setup routine: neither routine returns with it.
C19_InvalidGeometryRejected ==
  (Le(setup.cfg.x2len, Zero) \/ setup.cfg.Nx2 <= 0 \/ setup.cfg.dx2 = Zero) =>
    pc \in SetupPositions

\* C20: after problem_read_restart() a process has what problem()
\* establishes (Omega, Lx, Ly, the no-op hooks, the buffers allocated with
\* nmax = Nx2 + 2*nghost), and an exchange made after a restart at the time
\* of a completed exchange leaves the ghost zones as the uninterrupted run
\* had them.
C20_RestartEquivalent ==
  /\ [](pc \notin (SetupPositions \cup {"returned"}) =>
          [setup EXCEPT !.entry = "problem", !.restarts = 0]
            = Established(build, Omega))
  /\ [][(exchanged /\ setup.entry = "read_restart") => U' = U]_vars

\* after a restart at a sheared time the ix1 face has been rewritten
C20_ExchangedAfterRestart ==
  /\ setup.entry = "read_restart" /\ exchanged
  /\ pc = "gather" /\ face = "ox1"
  /\ Omega # Zero /\ epsi # Zero

\* the x1 ghost cells of a grid
GhostCellsX1(G) ==
  [kk \in DOMAIN G |-> [j \in DOMAIN G[kk] |->
     [col \in {c \in DOMAIN G[kk][j] : c < is \/ c > ie} |-> G[kk][j][col]]]]

\* C21: after either setup routine both x1 boundary hooks are no_op_VGfun,
\* a call of a hook changes no cell of the grid, and from the end of setup
\* on only the write-back of shear_ix1_ox1 changes an x1 ghost cell.
C21_SoleWriterOfGhostZones ==
  /\ [](pc \notin SetupPositions => setup.hooks = <<"no_op", "no_op">>)
  /\ [][pc = "hook" => U' = U]_vars
  /\ [][(pc \notin SetupPositions /\ pc # "write")
          => GhostCellsX1(U') = GhostCellsX1(U)]_vars

\* an enrolled hook is running after an exchange has filled the ghost zones
C21_HookCalledAfterExchange ==
  /\ pc = "hook" /\ Omega # Zero /\ time # Zero
  /\ setup.entry = "read_restart"
  /\ \E j \in js..je : U[ks][j][is - 1] # U[ks][j][ie]

(***************************************************************************)
(* Properties of the write-back and of the padding                         *)
(***************************************************************************)
\* C22: in a build with passive scalars, on either face, every layer i and
\* every j in [js, je], the scalar written to the ghost cell is
\* RemapGas[i][j].s[n] - (Flx[j+1].s[n] - Flx[j].s[n]).
C22_ScalarsSameOnBothFaces ==
  [][(pc = "write" /\ build.nscalars > 0) =>
       \A j \in js..je :
         U'[k][j][GhostColumn]["s0"]
           = Remapped(RemapGas[i][j]["s0"], Flx[j + 1]["s0"], Flx[j]["s0"])]_vars

\* C23: after the padding loop, on a grid of any number Nx2 >= 1 of cells,
\* in every layer i and for every m in 1..nghost, RemapGas[i][js-m] equals
\* RemapGas[i][je+1-m] and RemapGas[i][je+m] equals RemapGas[i][js+m-1];
\* the pencil is periodic with period Nx2 over [js-nghost, je+nghost], and
\* no cell of it is left unwritten.
C23_PaddingPeriodic ==
  pc = "step2" =>
    LET n2 == setup.cfg.Nx2
        last == js + n2 - 1
    IN  \A ii \in DOMAIN RemapGas :
          /\ \A m \in 1..nghost :
               /\ RemapGas[ii][js - m] = RemapGas[ii][last + 1 - m]
               /\ RemapGas[ii][last + m] = RemapGas[ii][js + m - 1]
          /\ \A x \in (js - nghost)..(last + nghost - n2) :
               RemapGas[ii][x] = RemapGas[ii][x + n2]
          /\ \A x \in (js - nghost)..(last + nghost) :
               ~IsNaN(RemapGas[ii][x]["d"])

\* a grid of fewer cells than nghost has been padded: the outermost halo
\* cell is the copy of a halo cell, and the pencil is not uniform
C23_PaddedFromPaddedCell ==
  /\ pc = "step2" /\ setup.cfg.Nx2 = 2
  /\ RemapGas[0][js]["d"] # RemapGas[0][js + 1]["d"]
  /\ RemapGas[0][js - nghost]["d"] = RemapGas[0][js - 2]["d"]

(***************************************************************************)
(* Further properties of CompRemapFlux, checked under KernelSpec           *)
(***************************************************************************)
\* the halo the kernel of this build needs beyond [il, iu]
Halo == IF build.order = 2 THEN 2 ELSE 3

\* the pencil with every cell outside [il - Halo, iu + Halo] unreadable
HaloOnly ==
  [x \in DOMAIN RemapGas[0] |->
     IF x \in (KernelIl - Halo)..(KernelIu + Halo)
     THEN RemapGas[0][x] ELSE IndetGas(build)]

\* C24: called as the driver calls it (il = js, iu = je+1, arrays of
\* Nx2 + 2*nghost cells), the kernel reads the pencil only in
\* [il-2, iu+2] (second order) or [il-3, iu+3] (third order): what it
\* computes does not change when every other cell is made unreadable; it
\* writes Flux only in [il-1, iu+2]; and the cells read, the interface
\* states and the fluxes written all have indices inside the arrays.
C24_HaloAndArrayBounds ==
  /\ (KernelIl - Halo)..(KernelIu + Halo) \subseteq DOMAIN RemapGas[0]
  /\ (KernelIl - 1)..(KernelIu + 2) \subseteq DOMAIN Flx
  /\ (KernelIl - 1)..(KernelIu + 2) \subseteq DOMAIN Uhalf
  /\ pc = "step4" =>
       \A x \in KernelCells : \A c \in Comps(build) :
         dUm[x][c] = LimitedSlope(HaloOnly, x, c)
  /\ pc = "step3" =>
       \A x \in (KernelIl - 1)..(KernelIu + 2) : \A c \in Comps(build) :
         Uhalf[x][c] = InterfaceState(HaloOnly, x, c)
  /\ pc = "step6" =>
       \A x \in KernelCells : \A c \in Comps(build) :
         <<Ulv[x][c], Urv[x][c]>> = EdgeValues(HaloOnly, Uhalf, x, c)
  /\ pc = "flux" =>
       \A x \in DOMAIN Flx :
         IF x \in (KernelIl - 1)..(KernelIu + 2)
         THEN (FluxCell(epsi, x) \in KernelCells) => ~IsNaN(Flx[x]["d"])
         ELSE Flx[x] = IndetGas(build)

\* a third-order flux has been computed from a pencil whose cell 0, outside
\* the halo, differs from its neighbour
C24_FluxFromHalo ==
  /\ pc = "flux" /\ build.order = 3
  /\ RemapGas[0][0]["d"] # RemapGas[0][1]["d"]
  /\ ~IsNaN(Flx[KernelIl]["d"])

\* v lies in the closed interval spanned by a and b
Between(v, a, b) == (Le(a, v) /\ Le(v, b)) \/ (Le(b, v) /\ Le(v, a))

\* C25: in the third-order build, after Step 5, in every cell i of
\* [il-1, iu+1] and every component, Ulv lies between U[i-1] and U[i] and
\* Urv lies between U[i] and U[i+1].
C25_EdgesBoundedByNeighbours ==
  (pc = "step6" /\ build.order = 3) =>
    \A x \in KernelCells : \A c \in Comps(build) :
      /\ Between(Ulv[x][c], RemapGas[0][x - 1][c], RemapGas[0][x][c])
      /\ Between(Urv[x][c], RemapGas[0][x][c], RemapGas[0][x + 1][c])

\* C26: in the third-order build, after Step 5, in every cell and
\* component either Ulv = Urv = U[i], or (Urv - U[i])*(U[i] - Ulv) > 0 and
\* the coefficients dU = Urv - Ulv and U6 = 6*(U[i] - (Ulv + Urv)/2) of
\* Step 6 satisfy |U6| <= |dU|.
C26_ParabolaMonotone ==
  (pc = "step6" /\ build.order = 3) =>
    \A x \in KernelCells : \A c \in Comps(build) :
      LET Uc == RemapGas[0][x][c]
          dU == Sub(Urv[x][c], Ulv[x][c])
          U6 == Mul(<<6, 1>>, Sub(Uc, Mul(Half, Add(Ulv[x][c], Urv[x][c]))))
      IN  \/ Ulv[x][c] = Uc /\ Urv[x][c] = Uc
          \/ /\ Gt(Mul(Sub(Urv[x][c], Uc), Sub(Uc, Ulv[x][c])), Zero)
             /\ Le(fabs(U6), fabs(dU))

\* Step 5 has moved one edge value of a cell that is not flat: its edge
\* values differ from the interface states and its parabola has |U6| = |dU|
C26_EdgeSteepened ==
  /\ pc = "step6" /\ build.order = 3
  /\ \E x \in KernelCells :
       /\ Ulv[x]["d"] # Urv[x]["d"]
       /\ <<Ulv[x]["d"], Urv[x]["d"]>> # <<Uhalf[x]["d"], Uhalf[x + 1]["d"]>>
       /\ fabs(Mul(<<6, 1>>, Sub(RemapGas[0][x]["d"],
                 Mul(Half, Add(Ulv[x]["d"], Urv[x]["d"])))))
            = fabs(Sub(Urv[x]["d"], Ulv[x]["d"]))

\* the flux that the kernel call in progress stores in Flux[x], from the
\* pencil of the ghost layer in progress
KernelFlux(x, c) ==
  IF build.order = 2
  THEN IntegrateLinear(CallEps, RemapGas[i][FluxCell(CallEps, x)][c],
                       LimitedSlope(RemapGas[i], FluxCell(CallEps, x), c))
  ELSE ParabolaFlux(CallEps, RemapGas[i][FluxCell(CallEps, x)][c],
                    <<Ulv[FluxCell(CallEps, x)][c],
                      Urv[FluxCell(CallEps, x)][c]>>)

\* C27: in every call of CompRemapFlux, whatever the sign of eps (eps = 0
\* included), every entry Flux[il..iu+1] is written during that call; so
\* every Flx[j] and Flx[j+1] that the write-back reads for j in [js, je] is
\* the flux of the kernel call for the same ghost layer and face, not one
\* left by an earlier layer, slice or face.
C27_FluxWrittenBeforeRead ==
  pc = "write" =>
    \A x \in il..(iu + 1) :
      /\ x \in WrittenInterfaces(CallEps)
      /\ \A c \in Comps(build) : Flx[x][c] = KernelFlux(x, c)

\* a kernel call with eps = 0 has returned, for a ghost layer after the
\* first one of a sheared time
C27_ZeroShiftCallReturned ==
  /\ pc = "write" /\ CallEps = Zero
  /\ time # Zero /\ Omega # Zero /\ i > 0

\* the ghost column written for layer i of the face in progress
WrittenColumn == IF face = "ix1" THEN GhostColumnIx1(i) ELSE GhostColumnOx1(i)

\* the gathered neighbour that bounds the remapped value of row j together
\* with the gathered value of row j itself: the upwind one
UpwindRow(j) == IF face = "ix1" THEN j - 1 ELSE j + 1

\* the write-back of a second-order build with a fractional shift in [0,1)
\* leaves component c of every ghost cell of the layer between the gathered
\* values of its row and of the upwind row
RemapBounded(cs) ==
  (/\ pc = "write" /\ build.order = 2
   /\ Le(Zero, epsi) /\ Lt(epsi, One)) =>
    \A j \in js..je :
      /\ \A c \in cs :
           Between(U'[k][j][WrittenColumn][c],
                   RemapGas[i][UpwindRow(j)][c], RemapGas[i][j][c])
      /\ (\A x \in 0..(nmax - 1) : Gt(RemapGas[i][x]["d"], Zero)) =>
           Gt(U'[k][j][WrittenColumn]["d"], Zero)

\* C28: in the second-order build, for every fractional shift in [0,1) and
\* every j in [js, je], each component of the inbound ghost value lies
\* between the gathered values at j-1 and j and each component of the
\* outbound ghost value between the gathered values at j and j+1; a
\* strictly positive gathered density pencil gives strictly positive ghost
\* densities.
C28_SecondOrderRemapBounded == [][RemapBounded(Comps(build))]_vars

\* the inbound write-back of a fractional shift has left a ghost density
\* strictly between two different gathered densities
C28_GhostStrictlyBetween ==
  /\ pc = "write" /\ build.order = 2 /\ face = "ix1" /\ i > 0
  /\ Gt(epsi, Zero) /\ Lt(epsi, One)
  /\ \E j \in js..je :
       LET v == U[k][j][GhostColumnIx1(i - 1)]["d"]
           a == RemapGas[i - 1][j - 1]["d"]
           b == RemapGas[i - 1][j]["d"]
       IN  /\ a # b /\ v # a /\ v # b
           /\ Between(v, a, b)
           /\ Gt(v, Zero)
           /\ LimitedSlope(RemapGas[i - 1], j, "d") # Zero

\* the cell src with M2, and E in the adiabatic build, boosted for the
\* face of sign sgn, every other component as it is
BoostedSource(sgn, src) ==
  [c \in Comps(build) |->
     IF c = "M2" THEN BoostedM2(Omega, sgn, src)
     ELSE IF c = "E" THEN BoostedE(src, BoostedM2(Omega, sgn, src))
     ELSE src[c]]

\* the orbital index maps of the integer offset n
CyclicIx1(j, n) == js + ((j - js - n) % Nx2)
CyclicOx1(j, n) == js + ((j - js + n) % Nx2)

\* with a fractional part of 0 and cs the components compared, every ghost
\* cell of a completed exchange is its cyclically shifted source cell with
\* the boost of its face
IntegerShiftCopies(cs) ==
  \A kk \in ks..ke : \A j \in js..je : \A ii \in 0..(nghost - 1) :
    \A c \in cs :
      /\ U[kk][j][GhostColumnIx1(ii)][c]
           = BoostedSource(1, U[kk][CyclicIx1(j, j_offset)]
                                [SourceColumnIx1(ii)])[c]
      /\ U[kk][j][GhostColumnOx1(ii)][c]
           = BoostedSource(-1, U[kk][CyclicOx1(j, j_offset)]
                                 [SourceColumnOx1(ii)])[c]

\* the source rows of the two gathers are the two cyclic maps, which are
\* inverse permutations of [js, je]
InversePermutations ==
  \A j \in js..je :
    /\ JRemapIx1(j, j_offset) = CyclicIx1(j, j_offset)
    /\ JRemapOx1(j, j_offset) = CyclicOx1(j, j_offset)
    /\ CyclicOx1(CyclicIx1(j, j_offset), j_offset) = j
    /\ CyclicIx1(CyclicOx1(j, j_offset), j_offset) = j

\* C29: when the fractional part of the offset is 0 and the integer offset
\* is n, after the exchange the inbound ghost cell (k, j, is-nghost+i)
\* equals the source cell (k, js + ((j - js - n) mod Nx2), ie-nghost+1+i)
\* with M2 (and energy) boosted and the outbound ghost cell (k, j, ie+1+i)
\* equals the source cell (k, js + ((j - js + n) mod Nx2), is+i) with the
\* opposite boost; the two index maps are inverse permutations of [js, je]
\* and at time 0 both are the identity.
C29_IntegerShiftCyclic ==
  (pc = "ret" /\ var_flag = 0 /\ epsi = Zero) =>
    /\ IntegerShiftCopies(Comps(build))
    /\ InversePermutations
    /\ time = Zero =>
         \A j \in js..je :
           JRemapIx1(j, j_offset) = j /\ JRemapOx1(j, j_offset) = j

\* a cell of fixed contents that stands for every cell outside the
\* interior
MaskGas(b) == [c \in Comps(b) |-> One]

\* column col of slice kk with every cell that is not an interior cell
\* replaced by the fixed cell
MaskedColumn(G, kk, col) ==
  [j \in JRange |->
     IF j \in js..je /\ col \in is..ie THEN G[kk][j][col] ELSE MaskGas(build)]

\* the source column of the ghost layer in progress
ReadColumn == IF face = "ix1" THEN SourceColumnIx1(i) ELSE SourceColumnOx1(i)

\* the padded pencil that the gather of the face in progress makes of the
\* column src
PencilFrom(src) ==
  PadFrom([x \in 0..(nmax - 1) |->
             IF x \in js..je
             THEN GatherCell(build, Omega, IF face = "ix1" THEN 1 ELSE -1,
                             src[SourceRow(x)], ZeroGas(build))
             ELSE ZeroGas(build)], 1)

\* the singleton of the function f, with f computed once
Once(f) == {g \in {f} : g = g}

\* component c of the interface states and of the L/R values that the
\* third-order kernel makes of the pencil P
InterfacesOf(P, c) ==
  [y \in 0..(nmax - 1) |->
     [cc \in {c} |->
        IF y \in (il - 1)..(iu + 2) THEN InterfaceState(P, y, c) ELSE Zero]]
EdgesOf(P, Uh, c) ==
  [x \in 0..(nmax - 1) |->
     IF x \in Cells THEN EdgeValues(P, Uh, x, c) ELSE <<Zero, Zero>>]

\* the flux through interface x that the kernel of the build makes of the
\* pencil P, with L/R values LR, for the shift of the face in progress
PencilFlux(P, LR, x, c) ==
  IF build.order = 2
  THEN IntegrateLinear(CallEps, P[FluxCell(CallEps, x)][c],
                       LimitedSlope(P, FluxCell(CallEps, x), c))
  ELSE ParabolaFlux(CallEps, P[FluxCell(CallEps, x)][c],
                    LR[FluxCell(CallEps, x)])

\* component c of the ghost value of row j computed from the pencil P
GhostValueOf(P, LR, j, c) ==
  Remapped(P[j][c], PencilFlux(P, LR, j + 1, c), PencilFlux(P, LR, j, c))

\* the write-back of a ghost layer writes what the time, the parameters
\* and the interior cells of the source column of the slice determine, and
\* changes no cell that a gather reads
WritesFromInterior ==
  pc = "write" =>
    /\ \A P \in Once(PencilFrom(MaskedColumn(U, k, ReadColumn))) :
         \A c \in WrittenFields(build) :
           \A Uh \in Once(IF build.order = 3 THEN InterfacesOf(P, c)
                          ELSE <<>>) :
             \A LR \in Once(IF build.order = 3 THEN EdgesOf(P, Uh, c)
                            ELSE <<>>) :
               \A j \in js..je :
                 U'[k][j][WrittenColumn][c] = GhostValueOf(P, LR, j, c)
    /\ \A kk \in KRange : \A j \in JRange : \A ii \in is..ie :
         U'[kk][j][ii] = U[kk][j][ii]

\* C30: with Nx1 >= nghost, the value written to ghost layer i of slice k on
\* either face is a function of the simulation time, the parameters and the
\* interior cells of slice k in the matching source column only
\* (ie-nghost+1+i inbound, is+i outbound): ghost cells and other slices have
\* no influence on it, and since no step of one face changes a cell that
\* the other face reads, the order of the faces has none either.
C30_GhostFromInteriorOnly == [][WritesFromInterior]_vars

=============================================================================
